---- MODULE Spec2Model ----
(***************************************************************************)
(* A model of four structures of the repository: the gap buffer of         *)
(* src/src/arrays/gap_buffer.rs, the circular buffer of                    *)
(* src/src/circular_buffer.rs, the doubly linked list of                   *)
(* src/src/lists/dll.rs and the growable array of                          *)
(* src/src/arrays/dyn_array.rs.                                            *)
(*                                                                         *)
(* Every method is an operator over a record with the fields of its struct *)
(* (plus `panicked`, which records that a bounds check, an assertion or an *)
(* unsigned subtraction of the method failed), and every public method     *)
(* that takes &mut self is one action.  Indices are the 0-based indices of *)
(* the source; TLA+ sequences are 1-based, so slot i of the source is      *)
(* buffer[i + 1].  Each specification builds one structure and calls its   *)
(* methods; the structures share no state.                                 *)
(*                                                                         *)
(* MIN_BUF_SIZE is 1024 in the source (gap_buffer.rs, line 8).  The model  *)
(* scales it down so that an exhausted gap, growth and shrink are          *)
(* reachable within a few calls; no definition depends on its value other  *)
(* than through the comparisons and the arithmetic of the source.          *)
(***************************************************************************)
EXTENDS Integers, Sequences, FiniteSets, TLC

\* ---------------------------------------------------------------- bounds
\* Scaled value of MIN_BUF_SIZE (1024 in the source).
MIN_BUF_SIZE == 2

\* insert is not called once the text holds MaxUsed characters.
MaxUsed == 3

\* A requested capacity above MIN_BUF_SIZE.
BigCap == 8

\* How many calls SpecGrowth and SpecChurn count.
MaxCalls == 6

\* The largest capacity a CircularBuffer is built with.
MaxRingCap == 4

\* How many calls SpecRing makes on a CircularBuffer.
MaxRingCalls == 5

\* push_front and push_back are not called once the list holds MaxListLen
\* items.
MaxListLen == 3

\* The largest initial capacity N of a DynamicArray, and the most items it is
\* given to hold.
MaxArrayN == 3
MaxStack == 5

SHRINK_THRESHOLD == MIN_BUF_SIZE

\* usize::MAX; only ever compared (pos.min(max_pos)), never added to.
USIZE_MAX == 2147483647

\* The characters that are inserted, and the filler '\0'.
Char == {"a", "b"}
NUL == "0"

\* Arguments of new(): one below and one above MIN_BUF_SIZE.
RequestedCaps == {MIN_BUF_SIZE - 1, BigCap}

\* Arguments of move_cursor().
Positions == (0 .. MaxUsed + 1) \cup {USIZE_MAX}

\* ------------------------------------------------- library functions used
Min(a, b) == IF a <= b THEN a ELSE b

Max(a, b) == IF a >= b THEN a ELSE b

saturating_sub(a, b) == IF a >= b THEN a - b ELSE 0

\* iter().take(n)
Take(s, n) == SubSeq(s, 1, Min(n, Len(s)))

\* iter().skip(n)
Skip(s, n) == SubSeq(s, Min(n, Len(s)) + 1, Len(s))

\* std::iter::repeat(x).take(n)
Repeat(x, n) == [i \in 1 .. n |-> x]

\* slice::copy_within(s..e, dest) panics unless this holds.
copy_within_ok(buf, s, e, dest) ==
    /\ s <= e
    /\ e <= Len(buf)
    /\ dest + (e - s) <= Len(buf)

\* slice::copy_within(s..e, dest): a memmove, so overlapping ranges read the
\* old contents.
copy_within(buf, s, e, dest) ==
    [i \in 1 .. Len(buf) |->
        IF dest < i /\ i <= dest + (e - s) THEN buf[s + (i - dest)] ELSE buf[i]]

\* ------------------------------------------------------------ the methods
Panic(g) == [g EXCEPT !.panicked = TRUE]

\* new that takes the requested capacity as it is.
new_no_floor(capacity) ==
    LET init_size == capacity IN
    [buffer |-> Repeat(NUL, init_size),
     cursor |-> 0,
     gap_end |-> init_size,
     panicked |-> FALSE]

new(capacity) ==
    LET init_size == Max(capacity, MIN_BUF_SIZE) IN
    [buffer |-> Repeat(NUL, init_size),
     cursor |-> 0,
     gap_end |-> init_size,
     panicked |-> FALSE]

used_size(g) == g.cursor + (Len(g.buffer) - g.gap_end)

\* The subtraction of used_size does not underflow.
used_size_ok(g) == g.gap_end <= Len(g.buffer)

\* extract_text that skips to the cursor instead of the end of the gap.
extract_text_with_gap(g) == Take(g.buffer, g.cursor) \o Skip(g.buffer, g.cursor)

extract_text(g) == Take(g.buffer, g.cursor) \o Skip(g.buffer, g.gap_end)

\* An element-by-element copy in ascending order (not a memmove).
RECURSIVE copy_ascending(_, _, _, _)
copy_ascending(buf, s, e, dest) ==
    IF s >= e THEN buf
    ELSE copy_ascending([buf EXCEPT ![dest + 1] = buf[s + 1]], s + 1, e, dest + 1)

\* move_left that copies with the ascending loop.
move_left_ascending(g, distance) ==
    IF distance = 0 \/ distance > g.cursor THEN g
    ELSE LET start == g.cursor - distance IN
         IF \/ g.gap_end < distance
            \/ ~copy_within_ok(g.buffer, start, g.cursor, g.gap_end - distance)
         THEN Panic(g)
         ELSE [g EXCEPT
                 !.buffer = copy_ascending(g.buffer, start, g.cursor, g.gap_end - distance),
                 !.cursor = g.cursor - distance,
                 !.gap_end = g.gap_end - distance]

move_left(g, distance) ==
    IF distance = 0 \/ distance > g.cursor THEN g
    ELSE LET start == g.cursor - distance IN
         IF \/ g.gap_end < distance
            \/ ~copy_within_ok(g.buffer, start, g.cursor, g.gap_end - distance)
         THEN Panic(g)
         ELSE [g EXCEPT
                 !.buffer = copy_within(g.buffer, start, g.cursor, g.gap_end - distance),
                 !.cursor = g.cursor - distance,
                 !.gap_end = g.gap_end - distance]

\* move_right that advances the cursor and leaves gap_end where it was.
move_right_keeps_gap_end(g, distance) ==
    IF distance = 0 \/ g.cursor + distance > g.gap_end THEN g
    ELSE LET start == g.gap_end IN
         IF ~copy_within_ok(g.buffer, g.cursor, start, g.cursor + distance)
         THEN Panic(g)
         ELSE [g EXCEPT
                 !.buffer = copy_within(g.buffer, g.cursor, start, g.cursor + distance),
                 !.cursor = g.cursor + distance]

move_right(g, distance) ==
    IF distance = 0 \/ g.cursor + distance > g.gap_end THEN g
    ELSE LET start == g.gap_end IN
         IF ~copy_within_ok(g.buffer, g.cursor, start, g.cursor + distance)
         THEN Panic(g)
         ELSE [g EXCEPT
                 !.buffer = copy_within(g.buffer, g.cursor, start, g.cursor + distance),
                 !.cursor = g.cursor + distance,
                 !.gap_end = g.gap_end + distance]

\* move_cursor without the clamp of pos to used_size.
move_cursor_unclamped(g, pos) ==
    IF ~used_size_ok(g) THEN Panic(g)
    ELSE LET new_pos == pos
         IN  IF new_pos < g.cursor THEN move_left(g, g.cursor - new_pos)
             ELSE IF new_pos > g.cursor THEN move_right(g, new_pos - g.cursor)
             ELSE g

move_cursor(g, pos) ==
    IF ~used_size_ok(g) THEN Panic(g)
    ELSE LET max_pos == used_size(g)
             new_pos == Min(pos, max_pos)
         IN  IF new_pos < g.cursor THEN move_left(g, g.cursor - new_pos)
             ELSE IF new_pos > g.cursor THEN move_right(g, new_pos - g.cursor)
             ELSE g

\* resize_buffer that lengthens or truncates the storage in place, leaving the
\* text after the gap at its old indices.
resize_buffer_in_place(g, new_size) ==
    IF ~used_size_ok(g) THEN Panic(g)
    ELSE LET used == used_size(g)
             new_buffer == Take(g.buffer, new_size)
                           \o Repeat(NUL, saturating_sub(new_size, Len(g.buffer)))
         IN  IF new_size < used THEN Panic(g)
             ELSE [g EXCEPT
                     !.buffer = new_buffer,
                     !.gap_end = Min(g.cursor + (new_size - used), new_size)]

resize_buffer(g, new_size) ==
    IF ~used_size_ok(g) THEN Panic(g)
    ELSE LET used == used_size(g)
             new_buffer == Take(g.buffer, g.cursor)
                           \o Repeat(NUL, saturating_sub(new_size, used))
                           \o Skip(g.buffer, g.gap_end)
         IN  IF new_size < used THEN Panic(g)
             ELSE [g EXCEPT
                     !.buffer = new_buffer,
                     !.gap_end = Min(g.cursor + (new_size - used), new_size)]

\* grow that adds one slot.
grow_by_one(g) == resize_buffer(g, Len(g.buffer) + 1)

grow(g) == resize_buffer(g, Len(g.buffer) * 2)

\* shrink without the floor of MIN_BUF_SIZE.
shrink_no_floor(g) ==
    IF ~used_size_ok(g) THEN Panic(g)
    ELSE LET new_size == used_size(g) * 2 IN
         IF new_size < Len(g.buffer) THEN resize_buffer(g, new_size) ELSE g

shrink(g) ==
    IF ~used_size_ok(g) THEN Panic(g)
    ELSE LET new_size == Max(used_size(g) * 2, MIN_BUF_SIZE) IN
         IF new_size < Len(g.buffer) THEN resize_buffer(g, new_size) ELSE g

\* The shrink check with the trigger at half of the capacity.
shrink_if_half(g) ==
    IF ~used_size_ok(g) THEN Panic(g)
    ELSE IF used_size(g) < Len(g.buffer) \div 2 /\ Len(g.buffer) > SHRINK_THRESHOLD
         THEN shrink(g)
         ELSE g

\* The shrink check that ends delete and backspace.
shrink_if_sparse(g) ==
    IF ~used_size_ok(g) THEN Panic(g)
    ELSE IF used_size(g) < Len(g.buffer) \div 4 /\ Len(g.buffer) > SHRINK_THRESHOLD
         THEN shrink(g)
         ELSE g

\* insert that grows as soon as one gap slot is left.
insert_eager(g, c) ==
    LET g1 == IF g.cursor + 1 >= g.gap_end THEN grow(g) ELSE g IN
    IF g1.panicked \/ g1.cursor >= Len(g1.buffer) THEN Panic(g1)
    ELSE [g1 EXCEPT !.buffer[g1.cursor + 1] = c, !.cursor = g1.cursor + 1]

insert(g, c) ==
    LET g1 == IF g.cursor = g.gap_end THEN grow(g) ELSE g IN
    IF g1.panicked \/ g1.cursor >= Len(g1.buffer) THEN Panic(g1)
    ELSE [g1 EXCEPT !.buffer[g1.cursor + 1] = c, !.cursor = g1.cursor + 1]

\* delete up to its shrink check.
delete_gap(g) ==
    IF g.cursor < g.gap_end /\ g.gap_end < Len(g.buffer)
    THEN [g EXCEPT !.gap_end = g.gap_end + 1]
    ELSE g

\* delete that extends the gap without looking at buffer.len().
delete_unguarded(g) ==
    shrink_if_sparse(IF g.cursor < g.gap_end
                     THEN [g EXCEPT !.gap_end = g.gap_end + 1]
                     ELSE g)

delete(g) == shrink_if_sparse(delete_gap(g))

\* backspace that extends the gap without looking at buffer.len().
backspace_unguarded(g) ==
    IF g.cursor > 0
    THEN LET g1 == [g EXCEPT !.cursor = saturating_sub(g.cursor, 1)]
             g2 == [g1 EXCEPT !.gap_end = g1.gap_end + 1]
         IN  shrink_if_sparse(g2)
    ELSE g

\* backspace with cursor > 0, up to its shrink check.
backspace_gap(g) ==
    LET g1 == [g EXCEPT !.cursor = saturating_sub(g.cursor, 1)] IN
    IF g1.gap_end < Len(g1.buffer)
    THEN [g1 EXCEPT !.gap_end = g1.gap_end + 1]
    ELSE g1

\* backspace that makes its shrink check also when cursor = 0.
backspace_always_checks(g) ==
    shrink_if_sparse(IF g.cursor > 0 THEN backspace_gap(g) ELSE g)

backspace(g) ==
    IF g.cursor > 0 THEN shrink_if_sparse(backspace_gap(g)) ELSE g

\* ------------------------------------------------------- reference editor
\* A flat sequence with a cursor index, edited the obvious way.
InsertAt(t, i, c) == SubSeq(t, 1, i) \o <<c>> \o SubSeq(t, i + 1, Len(t))

\* t without its character at 0-based position i.
RemoveAt(t, i) == SubSeq(t, 1, i) \o SubSeq(t, i + 2, Len(t))

\* ------------------------------------------------------- Option and items
\* Option<T>: None and Some(x).
None == << >>

Some(x) == <<x>>

\* What a read through an index outside the Vec ends in.
IndexPanic == <<"panic">>

\* The items that are pushed (the tests push small integers).
Item == {1, 2}

\* ------------------------------------- src/src/circular_buffer.rs, methods
\* std::mem::zeroed() of an integer item.
ZEROED == 0

\* A method's updated receiver and its return value.
Returned(self, ret) == [self |-> self, ret |-> ret]

cb_new(capacity) ==
    [buffer |-> << >>,
     capacity |-> capacity,
     head |-> 0,
     tail |-> 0,
     size |-> 0,
     panicked |-> ~(capacity > 0)]

\* push that leaves tail where it is when the buffer is full.
cb_push_keeps_tail(b, item) ==
    LET b1 == IF b.size = b.capacity THEN b ELSE [b EXCEPT !.size = b.size + 1]
        b2 == IF Len(b1.buffer) < b1.capacity
              THEN [b1 EXCEPT !.buffer = Append(b1.buffer, item)]
              ELSE IF b1.head < Len(b1.buffer)
                   THEN [b1 EXCEPT !.buffer[b1.head + 1] = item]
                   ELSE Panic(b1)
    IN  IF b2.panicked THEN b2
        ELSE [b2 EXCEPT !.head = (b2.head + 1) % b2.capacity]

cb_push(b, item) ==
    LET b1 == IF b.size = b.capacity
              THEN [b EXCEPT !.tail = (b.tail + 1) % b.capacity]
              ELSE [b EXCEPT !.size = b.size + 1]
        b2 == IF Len(b1.buffer) < b1.capacity
              THEN [b1 EXCEPT !.buffer = Append(b1.buffer, item)]
              ELSE IF b1.head < Len(b1.buffer)
                   THEN [b1 EXCEPT !.buffer[b1.head + 1] = item]
                   ELSE Panic(b1)
    IN  IF b2.panicked THEN b2
        ELSE [b2 EXCEPT !.head = (b2.head + 1) % b2.capacity]

\* pop that advances tail without the wrap at capacity.
cb_pop_no_wrap(b) ==
    IF b.size = 0 THEN Returned(b, None)
    ELSE IF b.tail >= Len(b.buffer) THEN Returned(Panic(b), None)
    ELSE Returned([b EXCEPT !.buffer[b.tail + 1] = ZEROED,
                            !.tail = b.tail + 1,
                            !.size = b.size - 1],
                  Some(b.buffer[b.tail + 1]))

cb_pop(b) ==
    IF b.size = 0 THEN Returned(b, None)
    ELSE IF b.tail >= Len(b.buffer) THEN Returned(Panic(b), None)
    ELSE Returned([b EXCEPT !.buffer[b.tail + 1] = ZEROED,
                            !.tail = (b.tail + 1) % b.capacity,
                            !.size = b.size - 1],
                  Some(b.buffer[b.tail + 1]))

cb_peek(b) ==
    IF b.size = 0 THEN None
    ELSE IF b.tail >= Len(b.buffer) THEN IndexPanic
    ELSE Some(b.buffer[b.tail + 1])

cb_clear(b) == [b EXCEPT !.head = 0, !.tail = 0, !.size = 0]

RECURSIVE cb_extend(_, _)
cb_extend(b, items) ==
    IF items = << >> \/ b.panicked THEN b
    ELSE cb_extend(cb_push(b, Head(items)), Tail(items))

cb_len(b) == b.size

\* iter().collect()
cb_iter(b) ==
    IF \E i \in 0 .. b.size - 1 : (b.tail + i) % b.capacity >= Len(b.buffer)
    THEN IndexPanic
    ELSE [k \in 1 .. b.size |-> b.buffer[((b.tail + (k - 1)) % b.capacity) + 1]]

\* ------------------------------------ src/src/arrays/dyn_array.rs, methods
\* T::default() of an integer item.
DEFAULT == 0

da_new(n) ==
    [buffer |-> Repeat(DEFAULT, n),
     len |-> 0,
     capacity |-> n,
     panicked |-> FALSE]

da_grow(a) ==
    LET capacity == a.capacity * 2
        new_buf == [i \in 1 .. capacity |-> IF i <= a.len THEN a.buffer[i] ELSE DEFAULT]
    IN  IF a.len > capacity \/ a.len > Len(a.buffer) THEN Panic(a)
        ELSE [a EXCEPT !.capacity = capacity, !.buffer = new_buf]

da_push(a, val) ==
    LET a1 == IF a.len = Len(a.buffer) THEN da_grow(a) ELSE a IN
    IF a1.panicked \/ a1.len >= Len(a1.buffer) THEN Panic(a1)
    ELSE [a1 EXCEPT !.buffer[a1.len + 1] = val, !.len = a1.len + 1]

da_get(a, idx) ==
    IF idx < a.len
    THEN IF idx < Len(a.buffer) THEN Some(a.buffer[idx + 1]) ELSE IndexPanic
    ELSE None

da_pop(a) ==
    IF a.len = 0 THEN Returned(a, None)
    ELSE IF a.len - 1 >= Len(a.buffer) THEN Returned(Panic(a), None)
    ELSE Returned([a EXCEPT !.len = a.len - 1, !.buffer[a.len] = DEFAULT],
                  Some(a.buffer[a.len]))

da_len(a) == a.len

da_capacity(a) == a.capacity

\* ----------------------------------------- src/src/lists/dll.rs, methods
\* The nodes are the cells of a heap indexed by NodeIds.  A strong reference
\* (head, Node.next) and a weak one (tail, Node.prev) are both a node id, NIL
\* for None.  A node is live while a strong reference holds it; the strong
\* references never form a cycle, so the live nodes are the ones reached from
\* head along next.
NIL == 0

NodeIds == 1 .. MaxListLen

\* A cell that holds no node.
Vacant == [next |-> NIL, prev |-> NIL, data |-> DEFAULT, live |-> FALSE]

\* The node ids from id along next.
RECURSIVE Chain(_, _, _)
Chain(nodes, id, fuel) ==
    IF id = NIL \/ fuel = 0 THEN << >>
    ELSE <<id>> \o Chain(nodes, nodes[id].next, fuel - 1)

\* The nodes a strong reference of the list holds.
Held(l) ==
    LET c == Chain(l.nodes, l.head, MaxListLen) IN {c[k] : k \in 1 .. Len(c)}

\* Rc drop: the nodes no strong reference holds are freed.
Sweep(l) ==
    [l EXCEPT !.nodes = [n \in NodeIds |-> IF n \in Held(l) THEN l.nodes[n] ELSE Vacant]]

\* Weak::upgrade: the node, or NIL when it has been freed.
upgrade(l, w) == IF w # NIL /\ l.nodes[w].live THEN w ELSE NIL

\* The cells Rc::new may take: not live and not the target of a weak
\* reference (an allocation stays while a Weak points to it).
FreeIds(l) ==
    LET weak == {l.tail} \cup {l.nodes[n].prev : n \in {m \in NodeIds : l.nodes[m].live}}
    IN  {n \in NodeIds : ~l.nodes[n].live /\ n \notin weak}

\* Node::new
Node_new(l, data) ==
    IF FreeIds(l) = {} THEN NIL
    ELSE CHOOSE n \in FreeIds(l) : \A m \in FreeIds(l) : n <= m

dll_new ==
    [nodes |-> [n \in NodeIds |-> Vacant],
     head |-> NIL,
     tail |-> NIL,
     len |-> 0,
     panicked |-> FALSE]

dll_push_front(l, val) ==
    LET new_head == Node_new(l, val) IN
    IF new_head = NIL THEN Panic(l)
    ELSE LET l1 == [l EXCEPT !.nodes[new_head] =
                        [next |-> NIL, prev |-> NIL, data |-> val, live |-> TRUE]]
             l2 == IF l.head # NIL
                   THEN [l1 EXCEPT !.nodes[l.head].prev = new_head,
                                   !.nodes[new_head].next = l.head,
                                   !.head = new_head]
                   ELSE [l1 EXCEPT !.tail = new_head, !.head = new_head]
         IN  Sweep([l2 EXCEPT !.len = l.len + 1])

dll_push_back(l, val) ==
    LET new_tail == Node_new(l, val) IN
    IF new_tail = NIL THEN Panic(l)
    ELSE LET l1 == [l EXCEPT !.nodes[new_tail] =
                        [next |-> NIL, prev |-> NIL, data |-> val, live |-> TRUE]]
             l2 == IF l.tail # NIL
                   THEN IF upgrade(l, l.tail) # NIL
                        THEN [l1 EXCEPT !.nodes[l.tail].next = new_tail,
                                        !.nodes[new_tail].prev = l.tail,
                                        !.tail = new_tail]
                        ELSE [l1 EXCEPT !.tail = NIL]
                   ELSE [l1 EXCEPT !.head = new_tail, !.tail = new_tail]
         IN  Sweep([l2 EXCEPT !.len = l.len + 1])

\* pop_front that leaves tail as it is when it removes the last node.
dll_pop_front_keeps_tail(l) ==
    IF l.head = NIL THEN Returned(l, None)
    ELSE LET old_head == l.head
             new_head == l.nodes[old_head].next
             l1 == [l EXCEPT !.head = NIL, !.nodes[old_head].next = NIL]
             l2 == IF new_head # NIL
                   THEN [l1 EXCEPT !.nodes[new_head].prev = NIL, !.head = new_head]
                   ELSE l1
         IN  IF l.len = 0 \/ old_head \in Held(l2)
             THEN Returned(Panic(l2), None)
             ELSE Returned(Sweep([l2 EXCEPT !.len = l.len - 1]),
                           Some(l.nodes[old_head].data))

\* Rc::try_unwrap(..).ok().unwrap() panics while another strong reference
\* holds the node.
dll_pop_front(l) ==
    IF l.head = NIL THEN Returned(l, None)
    ELSE LET old_head == l.head
             new_head == l.nodes[old_head].next
             l1 == [l EXCEPT !.head = NIL, !.nodes[old_head].next = NIL]
             l2 == IF new_head # NIL
                   THEN [l1 EXCEPT !.nodes[new_head].prev = NIL, !.head = new_head]
                   ELSE [l1 EXCEPT !.tail = NIL]
         IN  IF l.len = 0 \/ old_head \in Held(l2)
             THEN Returned(Panic(l2), None)
             ELSE Returned(Sweep([l2 EXCEPT !.len = l.len - 1]),
                           Some(l.nodes[old_head].data))

dll_pop_back(l) ==
    IF l.tail = NIL THEN Returned(l, None)
    ELSE IF upgrade(l, l.tail) = NIL THEN Returned([l EXCEPT !.tail = NIL], None)
    ELSE LET old_tail == l.tail
             new_tail == l.nodes[old_tail].prev
             l1 == [l EXCEPT !.tail = NIL, !.nodes[old_tail].prev = NIL]
             l2 == IF new_tail # NIL
                   THEN IF upgrade(l, new_tail) # NIL
                        THEN [l1 EXCEPT !.nodes[new_tail].next = NIL, !.tail = new_tail]
                        ELSE l1
                   ELSE [l1 EXCEPT !.head = NIL]
         IN  IF l.len = 0 \/ old_tail \in Held(l2)
             THEN Returned(Panic(l2), None)
             ELSE Returned(Sweep([l2 EXCEPT !.len = l.len - 1]),
                           Some(l.nodes[old_tail].data))

dll_peek_front(l) ==
    IF l.head = NIL THEN None ELSE Some(l.nodes[l.head].data)

dll_peek_back(l) ==
    IF upgrade(l, l.tail) = NIL THEN None ELSE Some(l.nodes[l.tail].data)

dll_len(l) == l.len

dll_is_empty(l) == l.len = 0

RECURSIVE dll_clear(_)
dll_clear(l) ==
    LET r == dll_pop_front(l) IN
    IF r.ret = None \/ r.self.panicked THEN r.self ELSE dll_clear(r.self)

\* iter().collect()
dll_iter(l) ==
    LET c == Chain(l.nodes, l.head, MaxListLen) IN
    [k \in 1 .. Len(c) |-> l.nodes[c[k]].data]

\* ------------------------------------------------------------------ state
VARIABLES
    buffer,     \* GapBuffer.buffer
    cursor,     \* GapBuffer.cursor
    gap_end,    \* GapBuffer.gap_end
    panicked,   \* a method has panicked
    requested,  \* the argument new() was called with
    op,         \* the last public method called
    old_len,    \* buffer.len() before that call
    old_cursor, \* cursor before that call
    old_gap_end, \* gap_end before that call
    prev_resize, \* what the last insert/delete/backspace before that call
                 \* did to buffer.len()
    calls,      \* calls counted by SpecGrowth and SpecChurn
    copied,     \* characters copied by the resizes of those calls
    resizes,    \* resizes done by those calls
    twin,       \* storage of a second buffer that receives the same calls
    ring,       \* a CircularBuffer
    fresh,      \* a CircularBuffer built when ring was built or last cleared,
                \* which has received the same calls since
    fifo,       \* SpecFifo: the items pushed and not yet popped, oldest first
    ring_calls, \* SpecRing: the calls made on ring since it was built
    list,       \* a DoublyLinkedList
    deque,      \* the reference sequence of list, front to back
    list_op,    \* the last method called on list
    array,      \* a DynamicArray<T, N>
    array_n,    \* its N
    stack,      \* the reference sequence of array, bottom to top
    doublings   \* how many calls of push found len() == capacity()

gap_vars == <<buffer, cursor, gap_end, panicked, requested, op, old_len, old_cursor,
              old_gap_end, prev_resize, calls, copied, resizes, twin>>

ring_vars == <<ring, fresh, fifo, ring_calls>>

list_vars == <<list, deque, list_op>>

array_vars == <<array, array_n, stack, doublings>>

vars == <<gap_vars, ring_vars, list_vars, array_vars>>

\* Each specification builds one structure; the variables of the others keep
\* this value.
Unbuilt == "unbuilt"

NoGapBuffer ==
    /\ buffer = Unbuilt
    /\ cursor = Unbuilt
    /\ gap_end = Unbuilt
    /\ panicked = Unbuilt
    /\ requested = Unbuilt
    /\ op = Unbuilt
    /\ old_len = Unbuilt
    /\ old_cursor = Unbuilt
    /\ old_gap_end = Unbuilt
    /\ prev_resize = Unbuilt
    /\ calls = Unbuilt
    /\ copied = Unbuilt
    /\ resizes = Unbuilt
    /\ twin = Unbuilt

NoRing ==
    /\ ring = Unbuilt
    /\ fresh = Unbuilt
    /\ fifo = Unbuilt
    /\ ring_calls = Unbuilt

NoList ==
    /\ list = Unbuilt
    /\ deque = Unbuilt
    /\ list_op = Unbuilt

NoArray ==
    /\ array = Unbuilt
    /\ array_n = Unbuilt
    /\ stack = Unbuilt
    /\ doublings = Unbuilt

Self == [buffer |-> buffer, cursor |-> cursor, gap_end |-> gap_end, panicked |-> panicked]

\* The second buffer: same indices (they never depend on the contents).
Twin == [buffer |-> twin, cursor |-> cursor, gap_end |-> gap_end, panicked |-> panicked]

Start(r, t) ==
    LET g == new(r) IN
    /\ buffer = g.buffer
    /\ cursor = g.cursor
    /\ gap_end = g.gap_end
    /\ panicked = g.panicked
    /\ requested = r
    /\ op = "new"
    /\ old_len = 0
    /\ old_cursor = 0
    /\ old_gap_end = 0
    /\ prev_resize = "none"
    /\ calls = 0
    /\ copied = 0
    /\ resizes = 0
    /\ twin = t
    /\ NoRing
    /\ NoList
    /\ NoArray

Init == \E r \in RequestedCaps : Start(r, new(r).buffer)

\* The logical text and its length, as the public read reports them.
Text == extract_text(Self)

Used == used_size(Self)

\* What the last call did to buffer.len().
Resize(before, after) ==
    IF after > before THEN "grow" ELSE IF after < before THEN "shrink" ELSE "none"

LastResize == IF op = "new" THEN "none" ELSE Resize(old_len, Len(buffer))

\* used_size before the last call.
OldUsed == old_cursor + (old_len - old_gap_end)

\* A call that takes Self to g and the second buffer to t.  While the two
\* buffers hold the same storage the call returns the same storage for both.
Step(name, g, t) ==
    /\ ~panicked
    /\ buffer' = g.buffer
    /\ cursor' = g.cursor
    /\ gap_end' = g.gap_end
    /\ panicked' = g.panicked
    /\ twin' = (IF twin = buffer THEN g.buffer ELSE t.buffer)
    /\ op' = name
    /\ old_len' = Len(buffer)
    /\ old_cursor' = cursor
    /\ old_gap_end' = gap_end
    /\ prev_resize' = (IF op = "move_cursor" THEN prev_resize ELSE LastResize)
    /\ UNCHANGED requested
    /\ UNCHANGED <<ring_vars, list_vars, array_vars>>

Call(name, g, t) == Step(name, g, t) /\ UNCHANGED <<calls, copied, resizes>>

InsertChar(c) ==
    /\ used_size(Self) < MaxUsed
    /\ Call("insert", insert(Self, c), insert(Twin, c))

Insert == \E c \in Char : InsertChar(c)

Delete == Call("delete", delete(Self), delete(Twin))

Backspace == Call("backspace", backspace(Self), backspace(Twin))

MoveCursorTo(pos) == Call("move_cursor", move_cursor(Self, pos), move_cursor(Twin, pos))

MoveCursor == \E pos \in Positions : MoveCursorTo(pos)

Next == Insert \/ Delete \/ Backspace \/ MoveCursor

Spec == Init /\ [][Next]_vars

\* A call that is counted: resize_buffer copies the used_size characters of
\* the text into the new storage.
Counted(name, g, t) ==
    /\ calls < MaxCalls
    /\ Step(name, g, t)
    /\ calls' = calls + 1
    /\ copied' = copied + (IF Len(g.buffer) # Len(buffer) THEN Used ELSE 0)
    /\ resizes' = resizes + (IF Len(g.buffer) # Len(buffer) THEN 1 ELSE 0)

\* Consecutive inserts into a buffer just built.
GrowthInsert == \E c \in Char : Counted("insert", insert(Self, c), insert(Twin, c))

SpecGrowth == Init /\ [][GrowthInsert]_vars

\* Inserts that fill a buffer just built up to its capacity, not counted.
ChurnFill ==
    /\ calls = 0
    /\ cursor < gap_end
    /\ \E c \in Char : Call("insert", insert(Self, c), insert(Twin, c))

\* Then insert and backspace in turn, counted.
ChurnInsert ==
    /\ cursor = gap_end \/ calls > 0
    /\ calls % 2 = 0
    /\ \E c \in Char : Counted("insert", insert(Self, c), insert(Twin, c))

ChurnBackspace ==
    /\ calls % 2 = 1
    /\ Counted("backspace", backspace(Self), backspace(Twin))

SpecChurn == Init /\ [][ChurnFill \/ ChurnInsert \/ ChurnBackspace]_vars

\* Two buffers built by new(r), insert(c1), insert(c2), insert(x), backspace()
\* with different characters x: they have the same indices and the same text,
\* and their gaps hold different leftovers of the character backspaced away.
TwinInit ==
    \E r \in RequestedCaps : \E c1 \in Char : \E c2 \in Char :
    \E x1 \in Char : \E x2 \in Char :
        LET g1 == backspace(insert(insert(insert(new(r), c1), c2), x1))
            g2 == backspace(insert(insert(insert(new(r), c1), c2), x2))
        IN  /\ buffer = g1.buffer
            /\ cursor = g1.cursor
            /\ gap_end = g1.gap_end
            /\ panicked = g1.panicked
            /\ requested = r
            /\ op = "backspace"
            /\ old_len = Len(g1.buffer)
            /\ old_cursor = g1.cursor + 1
            /\ old_gap_end = g1.gap_end
            /\ prev_resize = "none"
            /\ calls = 0
            /\ copied = 0
            /\ resizes = 0
            /\ twin = g2.buffer
            /\ NoRing
            /\ NoList
            /\ NoArray

SpecTwin == TwinInit /\ [][Next]_vars

\* Requested capacities up to MIN_BUF_SIZE.
SmallCaps == 0 .. MIN_BUF_SIZE

SmallInit == \E r \in SmallCaps : Start(r, new(r).buffer)

\* A call that returns with used_size <= MIN_BUF_SIZE.
SmallCall(name, g, t) == used_size(g) <= MIN_BUF_SIZE /\ Call(name, g, t)

SmallInsert == \E c \in Char : SmallCall("insert", insert(Self, c), insert(Twin, c))

SmallDelete == SmallCall("delete", delete(Self), delete(Twin))

SmallBackspace == SmallCall("backspace", backspace(Self), backspace(Twin))

SmallMoveCursor ==
    \E pos \in Positions :
        SmallCall("move_cursor", move_cursor(Self, pos), move_cursor(Twin, pos))

SmallNext == SmallInsert \/ SmallDelete \/ SmallBackspace \/ SmallMoveCursor

SpecSmall == SmallInit /\ [][SmallNext]_vars

\* ------------------------------------------------- CircularBuffer, actions
\* Arguments of CircularBuffer::new.
RingCaps == 1 .. MaxRingCap

\* Arguments of extend.
ItemSeqs == UNION {[1 .. n -> Item] : n \in 0 .. MaxRingCap}

RingInit ==
    \E capacity \in RingCaps :
        /\ ring = cb_new(capacity)
        /\ fresh = cb_new(capacity)
        /\ fifo = << >>
        /\ ring_calls = << >>
        /\ NoGapBuffer
        /\ NoList
        /\ NoArray

\* A call that takes ring to b and fresh to f.
RingStep(b, f, q, log) ==
    /\ ~ring.panicked
    /\ ring' = b
    /\ fresh' = f
    /\ fifo' = q
    /\ ring_calls' = log
    /\ UNCHANGED <<gap_vars, list_vars, array_vars>>

\* The calls of a queue used below its capacity.
FifoPush ==
    \E item \in Item :
        /\ cb_len(ring) < ring.capacity
        /\ RingStep(cb_push(ring, item), cb_push(fresh, item), Append(fifo, item),
                    ring_calls)

FifoPop ==
    RingStep(cb_pop(ring).self, cb_pop(fresh).self,
             IF fifo = << >> THEN fifo ELSE Tail(fifo), ring_calls)

FifoExtend ==
    \E items \in ItemSeqs :
        /\ cb_len(ring) + Len(items) <= ring.capacity
        /\ RingStep(cb_extend(ring, items), cb_extend(fresh, items), fifo \o items,
                    ring_calls)

SpecFifo == RingInit /\ [][FifoPush \/ FifoPop \/ FifoExtend]_vars

\* The calls of SpecRing, which are logged: push also on a full buffer, pop
\* and clear.
Logged(call, b, f) ==
    /\ Len(ring_calls) < MaxRingCalls
    /\ RingStep(b, f, fifo, Append(ring_calls, call))

RingPush ==
    \E item \in Item :
        Logged(<<"push", item>>, cb_push(ring, item), cb_push(fresh, item))

RingPop == Logged(<<"pop">>, cb_pop(ring).self, cb_pop(fresh).self)

RingClear == Logged(<<"clear">>, cb_clear(ring), cb_new(ring.capacity))

SpecRing == RingInit /\ [][RingPush \/ RingPop \/ RingClear]_vars

\* ----------------------------------------------- DoublyLinkedList, actions
ListInit ==
    /\ list = dll_new
    /\ deque = << >>
    /\ list_op = "new"
    /\ NoGapBuffer
    /\ NoRing
    /\ NoArray

ListStep(name, l, d) ==
    /\ ~list.panicked
    /\ list' = l
    /\ deque' = d
    /\ list_op' = name
    /\ UNCHANGED <<gap_vars, ring_vars, array_vars>>

\* s without its last element.
ButLast(s) == SubSeq(s, 1, Len(s) - 1)

PushFront ==
    \E val \in Item :
        /\ dll_len(list) < MaxListLen
        /\ ListStep("push_front", dll_push_front(list, val), <<val>> \o deque)

PushBack ==
    \E val \in Item :
        /\ dll_len(list) < MaxListLen
        /\ ListStep("push_back", dll_push_back(list, val), Append(deque, val))

PopFront ==
    ListStep("pop_front", dll_pop_front(list).self,
             IF deque = << >> THEN deque ELSE Tail(deque))

PopBack ==
    ListStep("pop_back", dll_pop_back(list).self,
             IF deque = << >> THEN deque ELSE ButLast(deque))

ListClear == ListStep("clear", dll_clear(list), << >>)

SpecList == ListInit /\ [][PushFront \/ PushBack \/ PopFront \/ PopBack \/ ListClear]_vars

\* --------------------------------------------------- DynamicArray, actions
\* The initial capacities N.
ArrayCaps == 0 .. MaxArrayN

ArrayInit ==
    \E n \in ArrayCaps :
        /\ array = da_new(n)
        /\ array_n = n
        /\ stack = << >>
        /\ doublings = 0
        /\ NoGapBuffer
        /\ NoRing
        /\ NoList

ArrayStep(a, st, d) ==
    /\ ~array.panicked
    /\ array' = a
    /\ stack' = st
    /\ doublings' = d
    /\ UNCHANGED <<array_n, gap_vars, ring_vars, list_vars>>

ArrayPush ==
    \E val \in Item :
        /\ Len(stack) < MaxStack
        /\ ArrayStep(da_push(array, val), Append(stack, val),
                     doublings + (IF da_len(array) = da_capacity(array) THEN 1 ELSE 0))

ArrayPop ==
    ArrayStep(da_pop(array).self,
              IF stack = << >> THEN stack ELSE ButLast(stack), doublings)

SpecArray == ArrayInit /\ [][ArrayPush \/ ArrayPop]_vars

\* ------------------------------------------------------------------ claims

\* C1: every call changes extract_text() exactly as the same edit, applied at
\* the same cursor position, changes a reference flat sequence: insert(c)
\* inserts c at the cursor index, delete() removes the character at the cursor
\* index if there is one, backspace() removes the character before it if there
\* is one, move_cursor(p) changes nothing.
C1_RoundTrip ==
    [][/\ \A c \in Char : InsertChar(c) => Text' = InsertAt(Text, cursor, c)
       /\ Delete => Text' = (IF cursor < Len(Text) THEN RemoveAt(Text, cursor) ELSE Text)
       /\ Backspace => Text' = (IF cursor > 0 THEN RemoveAt(Text, cursor - 1) ELSE Text)
       /\ MoveCursor => Text' = Text]_vars

\* C2: index invariant I1, 0 <= cursor <= gap_end <= capacity, in every
\* reachable state.
C2_IndexInvariant ==
    /\ 0 <= cursor
    /\ cursor <= gap_end
    /\ gap_end <= Len(buffer)

\* A buffer that has grown and has just shrunk again.
C2_Witness ==
    /\ requested < MIN_BUF_SIZE
    /\ op \in {"delete", "backspace"}
    /\ Len(buffer) < old_len

\* C3: move_cursor to a clamped target d slots right of the cursor copies the
\* d characters of [gap_end, gap_end+d) into [cursor, cursor+d), adds d to
\* cursor and gap_end, and leaves extract_text() as it was.
C3_MoveRight ==
    [][\A pos \in Positions :
         LET d == Min(pos, Used) - cursor IN
         (MoveCursorTo(pos) /\ d > 0) =>
            /\ cursor' = cursor + d
            /\ gap_end' = gap_end + d
            /\ \A k \in 1 .. d : buffer'[cursor + k] = buffer[gap_end + k]
            /\ Text' = Text]_vars

\* C4: move_cursor(n) returns with cursor = min(n, used_size).
C4_CursorClamp ==
    [][\A pos \in Positions : MoveCursorTo(pos) => cursor' = Min(pos, Used)]_vars

\* C5: backspace() with cursor > 0 removes exactly the character left of the
\* cursor: used_size and cursor each decrease by 1 and the text loses the
\* character at logical position cursor-1 and nothing else.
C5_Backspace ==
    [][(Backspace /\ cursor > 0) =>
         /\ Used' = Used - 1
         /\ cursor' = cursor - 1
         /\ Text' = RemoveAt(Text, cursor - 1)]_vars

\* C6: delete() with a character after the cursor (cursor < used_size) removes
\* exactly that character: used_size decreases by 1, cursor is unchanged and
\* the text loses the character at logical position cursor and nothing else.
C6_Delete ==
    [][(Delete /\ cursor < Used) =>
         /\ Used' = Used - 1
         /\ cursor' = cursor
         /\ Text' = RemoveAt(Text, cursor)]_vars

\* C7: insert(c) adds 1 to cursor and to used_size and makes the text the
\* previous text with c inserted at the previous cursor index, whether or not
\* the buffer grows.
\* Stated of the buffer that insert(c) returns in each reachable state.
C7_Insert ==
    \A c \in Char :
        LET g == insert(Self, c) IN
        /\ ~g.panicked
        /\ g.cursor = cursor + 1
        /\ used_size(g) = Used + 1
        /\ extract_text(g) = InsertAt(Text, cursor, c)

\* An insert that grew the buffer, made in front of other text.
C7_Witness ==
    /\ op = "insert"
    /\ Len(buffer) > old_len
    /\ cursor < Used

\* C8, as claimed: capacity >= max(requested capacity, MIN_CAPACITY) always.
C8_CapacityFloor == Len(buffer) >= Max(requested, MIN_BUF_SIZE)

\* C8, amended: capacity >= MIN_CAPACITY always, and capacity >=
\* max(requested capacity, MIN_CAPACITY) when the requested capacity is at
\* most MIN_CAPACITY.
C8_CapacityFloorAmended ==
    /\ Len(buffer) >= MIN_BUF_SIZE
    /\ requested <= MIN_BUF_SIZE => Len(buffer) >= Max(requested, MIN_BUF_SIZE)

\* A buffer requested above MIN_CAPACITY that a deletion has shrunk.
C8_Witness ==
    /\ requested > MIN_BUF_SIZE
    /\ op \in {"delete", "backspace"}
    /\ Len(buffer) < old_len
    /\ Len(buffer) < requested

\* C9: no call indexes or copies outside the storage or subtracts below zero.
C9_Total == ~panicked

\* An insert at the end of the text that found the gap exhausted and doubled
\* the storage before writing.
C9_Witness ==
    /\ ~panicked
    /\ op = "insert"
    /\ Len(buffer) = 2 * old_len
    /\ gap_end = Len(buffer)

\* The two buffers of SpecTwin start with equal indices and equal slots
\* outside the gap [cursor, gap_end).
C10_Precondition ==
    /\ Len(twin) = Len(buffer)
    /\ Take(twin, cursor) = Take(buffer, cursor)
    /\ Skip(twin, gap_end) = Skip(buffer, gap_end)

\* C10: two buffers that agree outside the gap and receive the same calls
\* return the same extract_text() after every call.
C10_GapNotObservable == extract_text(Twin) = Text

\* C11: move_cursor to a clamped target d slots left of the cursor copies the
\* characters of [target, cursor) into [gap_end-d, gap_end), subtracts d from
\* cursor and gap_end, and leaves extract_text() as it was, for every gap size.
\* Stated of the buffer that move_cursor(pos) returns in each reachable state.
C11_MoveLeft ==
    \A pos \in Positions :
        LET target == Min(pos, Used)
            d == cursor - target
            g == move_cursor(Self, pos)
        IN  d > 0 =>
               /\ ~g.panicked
               /\ g.cursor = target
               /\ g.gap_end = gap_end - d
               /\ Len(g.buffer) = Len(buffer)
               /\ \A k \in 1 .. d : g.buffer[gap_end - d + k] = buffer[target + k]
               /\ extract_text(g) = Text

\* A move to the left over more characters than the gap has slots, so that the
\* copied range and its destination overlap.
C11_Witness ==
    /\ op = "move_cursor"
    /\ cursor < old_cursor
    /\ cursor < gap_end
    /\ gap_end - cursor < old_cursor - cursor

\* C12: new(r) returns a buffer with capacity max(r, MIN_CAPACITY), cursor 0,
\* gap_end = capacity, used_size 0 and an empty text.
C12_New ==
    op = "new" =>
        /\ Len(buffer) = Max(requested, MIN_BUF_SIZE)
        /\ cursor = 0
        /\ gap_end = Len(buffer)
        /\ Used = 0
        /\ Text = << >>

\* A buffer just built with a requested capacity above MIN_CAPACITY.
C12_Witness ==
    /\ op = "new"
    /\ requested > MIN_BUF_SIZE
    /\ Len(buffer) = requested

\* b holds the same characters as a.
SameContent(a, b) ==
    /\ ~b.panicked
    /\ used_size(b) = used_size(a)
    /\ extract_text(b) = extract_text(a)

\* C13: every resize leaves used_size and extract_text() as they were
\* immediately before it: the growth of an insert that finds the gap
\* exhausted, and the shrink that ends a delete or a backspace.
C13_ResizePreserves ==
    /\ cursor = gap_end => SameContent(Self, grow(Self))
    /\ SameContent(delete_gap(Self), delete(Self))
    /\ cursor > 0 => SameContent(backspace_gap(Self), backspace(Self))

\* A deletion that shrank a buffer which still holds text after the cursor,
\* text that the resize had to relocate.
C13_Witness ==
    /\ op \in {"delete", "backspace"}
    /\ LastResize = "shrink"
    /\ cursor < Used

\* C14: a delete() or backspace() that removes a character and leaves
\* used_size < capacity/4 with capacity > SHRINK_THRESHOLD returns with
\* capacity max(2*used_size, MIN_CAPACITY); one that removes a character
\* otherwise leaves the capacity as it was.
C14_ShrinkRule ==
    (op \in {"delete", "backspace"} /\ Used < OldUsed) =>
        Len(buffer) = (IF Used < old_len \div 4 /\ old_len > SHRINK_THRESHOLD
                       THEN Max(2 * Used, MIN_BUF_SIZE)
                       ELSE old_len)

\* A deletion that removed a character, left text behind and shrank.
C14_Witness ==
    /\ op \in {"delete", "backspace"}
    /\ Used < OldUsed
    /\ Used > 0
    /\ Len(buffer) < old_len

\* C15: insert changes the capacity exactly when it is called with
\* cursor = gap_end, and then the capacity is twice what it was.
C15_GrowthRule ==
    op = "insert" =>
        /\ Len(buffer) = (IF old_cursor = old_gap_end THEN 2 * old_len ELSE old_len)
        /\ Len(buffer) # old_len <=> old_cursor = old_gap_end

\* An insert in front of other text that found the gap exhausted.
C15_Witness ==
    /\ op = "insert"
    /\ old_cursor = old_gap_end
    /\ old_gap_end < old_len
    /\ Len(buffer) = 2 * old_len

\* C16: the insert right after a shrinking delete/backspace does not grow
\* the buffer, and the delete/backspace right after a growing insert does not
\* shrink it.
C16_Hysteresis ==
    /\ ~(prev_resize = "shrink" /\ op = "insert" /\ LastResize = "grow")
    /\ ~(prev_resize = "grow" /\ op \in {"delete", "backspace"} /\ LastResize = "shrink")

\* C16, consequence: inserts and backspaces in turn on a buffer filled to its
\* capacity resize it once, however long they go on.
C16_BoundedChurn == resizes <= 1

\* A character removed by the call right after a growing insert.
C16_Witness ==
    /\ prev_resize = "grow"
    /\ op \in {"delete", "backspace"}
    /\ Used < OldUsed

\* C17: a shrink that resizes sets the capacity to a value strictly below the
\* one that triggered it and not below MIN_CAPACITY, and the capacity is at
\* least MIN_CAPACITY in every reachable state.
C17_ShrinkTarget ==
    /\ Len(buffer) >= MIN_BUF_SIZE
    /\ (op \in {"delete", "backspace"} /\ Len(buffer) # old_len) =>
            /\ Len(buffer) < old_len
            /\ Len(buffer) >= MIN_BUF_SIZE

\* A shrink from at least four times MIN_CAPACITY down to MIN_CAPACITY.
C17_Witness ==
    /\ op \in {"delete", "backspace"}
    /\ old_len >= 4 * MIN_BUF_SIZE
    /\ Len(buffer) = MIN_BUF_SIZE

\* C18: over N consecutive inserts into a buffer just built, the resizes copy
\* at most 2*N characters in total.
C18_AmortizedGrowth == copied <= 2 * calls

\* Inserts that have grown the buffer twice.
C18_Witness ==
    /\ calls > 0
    /\ requested < MIN_BUF_SIZE
    /\ Len(buffer) = 4 * MIN_BUF_SIZE
    /\ copied > 0

\* C19: delete() with no character after the cursor (cursor = used_size)
\* leaves extract_text(), used_size and cursor as they were.
\* Stated of the buffer that delete() returns in each reachable state.
C19_DeleteAtEnd ==
    cursor = Used =>
        LET g == delete(Self) IN
        /\ ~g.panicked
        /\ extract_text(g) = Text
        /\ used_size(g) = Used
        /\ g.cursor = cursor

\* A delete at the end of a non-empty text, which shrank the storage.
C19_Witness ==
    /\ op = "delete"
    /\ old_gap_end = old_len
    /\ old_cursor > 0
    /\ LastResize = "shrink"

\* C20: backspace() with cursor = 0 leaves cursor, gap_end, the storage (and
\* so the capacity) and extract_text() as they were.
\* Stated of the buffer that backspace() returns in each reachable state.
C20_BackspaceAtStart ==
    cursor = 0 =>
        LET g == backspace(Self) IN
        /\ ~g.panicked
        /\ g.buffer = buffer
        /\ g.cursor = cursor
        /\ g.gap_end = gap_end
        /\ extract_text(g) = Text

\* A backspace at the start of a buffer that is sparse enough to shrink.
C20_Witness ==
    /\ op = "backspace"
    /\ old_cursor = 0
    /\ Len(buffer) > SHRINK_THRESHOLD
    /\ Used < Len(buffer) \div 4

\* C21: a buffer built by new(r) with r <= MIN_CAPACITY keeps capacity
\* MIN_CAPACITY along every sequence of calls during which used_size never
\* exceeds MIN_CAPACITY.
C21_SmallStable == Len(buffer) = MIN_BUF_SIZE

\* An insert that filled the buffer to MIN_CAPACITY and exhausted the gap.
C21_Witness ==
    /\ op = "insert"
    /\ Used = MIN_BUF_SIZE
    /\ cursor = gap_end
    /\ Len(buffer) = MIN_BUF_SIZE

\* The sizes grow and shrink pass to resize_buffer.
ResizeTargets == {Len(buffer) * 2, Max(Used * 2, MIN_BUF_SIZE)}

\* C25: a resize to new_size leaves cursor and the slots [0, cursor) as they
\* were, places the characters of [gap_end, old capacity) in the last
\* (old capacity - gap_end) slots of the new storage in the same order, makes
\* the capacity new_size and gap_end = cursor + (new_size - used_size), so
\* that the gap is exactly the slots between the two text zones.
\* Stated of the buffer that resize_buffer returns in each reachable state.
C25_ResizeLayout ==
    \A new_size \in ResizeTargets :
        LET g == resize_buffer(Self, new_size)
            after == Len(buffer) - gap_end
        IN  /\ ~g.panicked
            /\ g.cursor = cursor
            /\ Len(g.buffer) = new_size
            /\ \A k \in 1 .. cursor : g.buffer[k] = buffer[k]
            /\ \A k \in 1 .. after : g.buffer[new_size - after + k] = buffer[gap_end + k]
            /\ g.gap_end = cursor + (new_size - Used)
            /\ g.gap_end = new_size - after

\* A growth that relocated two characters to the tail of the new storage.
C25_Witness ==
    /\ LastResize = "grow"
    /\ Len(buffer) - gap_end >= 2
    /\ cursor > 0

\* C26: move_cursor, for every argument and in every reachable state, leaves
\* used_size, the capacity and the size of the gap as they were.
\* Stated of the state every call of move_cursor returns in: MoveCursor is
\* enabled in every reachable state with every argument of Positions.
C26_MoveCursorFrame ==
    op = "move_cursor" =>
        /\ ~panicked
        /\ Used = OldUsed
        /\ Len(buffer) = old_len
        /\ gap_end - cursor = old_gap_end - old_cursor

\* A move to the right that took a gap of at least one slot along.
C26_Witness ==
    /\ op = "move_cursor"
    /\ cursor > old_cursor
    /\ gap_end > cursor
    /\ gap_end - cursor = old_gap_end - old_cursor

\* C27: a delete() with no character after the cursor and a backspace() with
\* cursor = 0 leave the capacity as it was, for every requested capacity.
\* Stated of the buffers that delete() and backspace() return in each
\* reachable state.
C27_CapacityFrame ==
    /\ cursor = Used => Len(delete(Self).buffer) = Len(buffer)
    /\ cursor = 0 => Len(backspace(Self).buffer) = Len(buffer)

\* C28: extract_text() returns exactly used_size characters: the slots
\* [0, cursor) followed by the slots [gap_end, capacity), in that order.  It
\* takes the buffer by shared reference and is an operator from the buffer to
\* the text; no field is written.
C28_ExtractText ==
    LET t == extract_text(Self) IN
    /\ Len(t) = Used
    /\ \A k \in 1 .. cursor : t[k] = buffer[k]
    /\ \A k \in 1 .. Len(buffer) - gap_end : t[cursor + k] = buffer[gap_end + k]

\* Text on both sides of a gap that is not empty.
C28_Witness ==
    /\ 0 < cursor
    /\ cursor < gap_end
    /\ gap_end < Len(buffer)

\* What pop and peek return on a reference queue q.
Oldest(q) == IF q = << >> THEN None ELSE Some(Head(q))

\* C22: on a CircularBuffer that push, pop and extend never take above its
\* capacity, pop returns the oldest item pushed and not yet popped (None
\* exactly when there is none), peek returns the same item and removes
\* nothing, and len() is the number of items pushed and not yet popped.
C22_Fifo ==
    /\ ~ring.panicked
    /\ cb_pop(ring).ret = Oldest(fifo)
    /\ cb_peek(ring) = Oldest(fifo)
    /\ cb_len(ring) = Len(fifo)

\* A queue that holds items across the wrap of its indices: a pop has moved
\* tail forward and head has wrapped around to a slot at or before it.
C22_Witness ==
    /\ ring.tail > 0
    /\ ring.head <= ring.tail
    /\ Len(fifo) >= 2

\* The calls made so far are all pushes, and the items they pushed.
OnlyPushes == \A k \in 1 .. Len(ring_calls) : ring_calls[k][1] = "push"

Pushed == [k \in 1 .. Len(ring_calls) |-> ring_calls[k][2]]

\* The last n elements of s.
LastN(s, n) == SubSeq(s, Len(s) - n + 1, Len(s))

Cleared == \E k \in 1 .. Len(ring_calls) : ring_calls[k] = <<"clear">>

\* C30: once clear() has been called, len(), peek(), pop() and iter() return
\* what they return on a buffer of the same capacity that was built at the
\* time of the last clear() and has received the same calls since; right after
\* clear(), len() is 0.
C30_ClearResets ==
    Cleared =>
        /\ cb_len(ring) = cb_len(fresh)
        /\ cb_peek(ring) = cb_peek(fresh)
        /\ cb_pop(ring).ret = cb_pop(fresh).ret
        /\ cb_iter(ring) = cb_iter(fresh)

\* What pop_back and peek_back return on a reference sequence d.
Newest(d) == IF d = << >> THEN None ELSE Some(d[Len(d)])

\* C23: after every sequence of push_front, push_back, pop_front, pop_back
\* and clear calls, the pops and peeks return what they return on the
\* reference sequence, len() is its length, is_empty() holds exactly when it is
\* 0, and iter() yields it front to back.
C23_Deque ==
    /\ ~list.panicked
    /\ dll_pop_front(list).ret = Oldest(deque)
    /\ dll_pop_back(list).ret = Newest(deque)
    /\ dll_peek_front(list) = Oldest(deque)
    /\ dll_peek_back(list) = Newest(deque)
    /\ dll_len(list) = Len(deque)
    /\ dll_is_empty(list) <=> Len(deque) = 0
    /\ dll_iter(list) = deque

\* A pop_back that left two items, the front one pushed at the front and the
\* back one pushed at the back.
C23_Witness ==
    /\ list_op = "pop_back"
    /\ Len(deque) = 2
    /\ list.head > list.tail
    /\ deque[1] # deque[2]

RECURSIVE Pow2(_)
Pow2(n) == IF n = 0 THEN 1 ELSE 2 * Pow2(n - 1)

\* C24: for every initial capacity N and after every sequence of push and pop
\* calls, get(i) returns the i-th element still stored for i < len() and None
\* for i >= len(), pop returns the element pushed last and not yet popped
\* (None when there is none), and capacity() is N doubled once per push that
\* found len() = capacity().
C24_Stack ==
    /\ ~array.panicked
    /\ \A i \in 0 .. MaxStack :
          da_get(array, i) = (IF i < Len(stack) THEN Some(stack[i + 1]) ELSE None)
    /\ da_len(array) = Len(stack)
    /\ da_pop(array).ret = Newest(stack)
    /\ da_capacity(array) = array_n * Pow2(doublings)

====
